---- MODULE Spec2Model ----
(***************************************************************************)
(* Property Portfolio API (main.py, schemas.py): the portfolio listing,    *)
(* the single and bulk portfolio inserts and the contact submission flow   *)
(* (persist, then email, then a blended status), as a state machine over   *)
(* the document store and the process environment.                         *)
(*                                                                         *)
(* Every handler is one action: a request is taken, the handler runs to    *)
(* its response (or to the error it raises), and `req`, `resp` and `log`   *)
(* hold the request, its response and the calls the handler made.          *)
(*                                                                         *)
(* Values: a Python Optional is <<>> (None) or <<v>>; a string the code    *)
(* only measures is its length; a string the code parses is its sequence   *)
(* of characters; an environment variable is [set, val].                   *)
(***************************************************************************)
EXTENDS Integers, Sequences, FiniteSets, TLC

VARIABLES
    env,        \* os.environ: SMTP_HOST, SMTP_PORT, SMTP_USER, SMTP_PASS, CONTACT_TO_EMAIL, TO_EMAIL
    dbUp,       \* database.db is not None
    portfolio,  \* collection "portfolioitem", in insertion order
    contacts,   \* collection "contactmessage", in insertion order
    nextId,     \* the next _id the store assigns
    clock,      \* the store's creation clock
    req,        \* the last request handled
    resp,       \* its response
    log,        \* the calls the handler made for it, in order
    posted,     \* ids returned so far by POST /api/portfolio
    nreq        \* writing requests (POST) handled so far

vars == <<env, dbUp, portfolio, contacts, nextId, clock, req, resp, log, posted, nreq>>

----------------------------------------------------------------------------
(* Bounds of the model *)

MaxReqs == 2     \* POST requests per behaviour
MaxDocs == 20    \* largest preloaded collection of the listing specification
MaxPage == 2     \* pages 0 .. MaxPage are requested
MaxLimit == 2    \* limits 0 .. MaxLimit (and the default) are requested
MaxCycle == 2    \* preloaded collections cycle through 1 .. MaxCycle categories

(* Program constants *)

DefaultPage == 1
DefaultLimit == 18
NameMinLen == 2
NameMaxLen == 120
PhoneMaxLen == 50
MessageMinLen == 5
MessageMaxLen == 5000

----------------------------------------------------------------------------
(* Python values *)

NoneV == <<>>
Some(v) == <<v>>
IsNone(o) == o = <<>>

Unset == [set |-> FALSE, val |-> <<>>]
EnvVal(chars) == [set |-> TRUE, val |-> chars]

\* truthiness of os.getenv(...): None and "" are falsy
EnvTruthy(e) == e.set /\ e.val # <<>>

\* a or b, on two os.getenv results
EnvOr(a, b) == IF EnvTruthy(a) THEN a ELSE b

Max(a, b) == IF a >= b THEN a ELSE b
Min(a, b) == IF a <= b THEN a ELSE b

\* str(ObjectId): the store's _id rendered as the string the API returns
StrId(oid) == <<"oid", oid>>
NoId == <<>>

----------------------------------------------------------------------------
(* schemas.py *)

Categories ==
    << "Interiors", "Exteriors", "Drone / Aerial", "Architectural Details",
       "Commercial Spaces", "Short-Let & Airbnb" >>

CategorySet == { Categories[i] : i \in 1..Len(Categories) }

\* HttpUrl: an absolute URL with scheme http or https and a host
IsHttpUrl(src) == src.scheme \in {"http", "https"} /\ src.host # ""

\* Optional[int] = Field(None, ge=1)
OptGe1(o) == IsNone(o) \/ o[1] >= 1

\* mutant: the category is any string
PortfolioItemValidAnyCategory(b) ==
    /\ IsHttpUrl(b.src)
    /\ OptGe1(b.width)
    /\ OptGe1(b.height)

PortfolioItemValid(b) ==
    /\ b.category \in CategorySet
    /\ IsHttpUrl(b.src)
    /\ OptGe1(b.width)
    /\ OptGe1(b.height)

\* EmailStr: a non-empty local part and a non-empty domain
IsEmail(e) == e.local # "" /\ e.domain # ""

ContactMessageValid(p) ==
    /\ p.name >= NameMinLen /\ p.name <= NameMaxLen
    /\ IsEmail(p.email)
    /\ (IsNone(p.phone) \/ p.phone[1] <= PhoneMaxLen)
    /\ p.message >= MessageMinLen /\ p.message <= MessageMaxLen

RECURSIVE AllValid(_)
AllValid(items) ==
    IF items = <<>> THEN TRUE
    ELSE PortfolioItemValid(Head(items)) /\ AllValid(Tail(items))

----------------------------------------------------------------------------
(* database.py: create_document(collection_name, data) inserts the model's  *)
(* fields with a creation time and returns str(inserted_id); it raises      *)
(* when the store is unavailable or the insert fails.                       *)

NewDoc(data, oid, now) == [_id |-> oid, data |-> data, created_at |-> now]

\* [raised, id, coll]: the outcome of one create_document call on `coll`
create_document(coll, data, oid, now, ok) ==
    IF dbUp /\ ok
    THEN [raised |-> FALSE, id |-> StrId(oid), coll |-> Append(coll, NewDoc(data, oid, now))]
    ELSE [raised |-> TRUE, id |-> NoId, coll |-> coll]

----------------------------------------------------------------------------
(* Responses *)

NoResp ==
    [ code |-> 0, status |-> "", id |-> NoId, detail |-> <<>>,
      items |-> <<>>, total |-> 0, page |-> 0, limit |-> 0,
      inserted |-> 0, ids |-> <<>> ]

\* the framework's answer to a body that fails schema validation
ValidationError == [NoResp EXCEPT !.code = 422, !.status = "validation error"]

\* HTTPException(status_code=500, detail="Database not configured")
NotConfigured == [NoResp EXCEPT !.code = 500, !.detail = <<"Database not configured">>]

\* an exception that leaves the handler
ServerError == [NoResp EXCEPT !.code = 500, !.status = "internal server error"]

----------------------------------------------------------------------------
(* GET /api/portfolio *)

\* filter_dict: `if category:` adds the restriction for a non-empty category only
filter_dict(category) ==
    IF ~IsNone(category) /\ category[1] # "" THEN category ELSE NoneV

\* coll.find(filter_dict), in natural order
Find(coll, filter) ==
    SelectSeq(coll, LAMBDA d : IsNone(filter) \/ d.data.category = filter[1])

\* coll.count_documents(filter_dict)
count_documents(coll, filter) == Len(Find(coll, filter))

\* mutant: ascending creation order
RECURSIVE InsertCreatedAsc(_, _)
InsertCreatedAsc(d, t) ==
    IF t = <<>> THEN <<d>>
    ELSE IF d.created_at <= Head(t).created_at THEN <<d>> \o t
    ELSE <<Head(t)>> \o InsertCreatedAsc(d, Tail(t))

\* one document placed into a sequence already in descending creation order
RECURSIVE InsertCreatedDesc(_, _)
InsertCreatedDesc(d, t) ==
    IF t = <<>> THEN <<d>>
    ELSE IF d.created_at >= Head(t).created_at THEN <<d>> \o t
    ELSE <<Head(t)>> \o InsertCreatedDesc(d, Tail(t))

\* cursor.sort("created_at", -1)
RECURSIVE SortCreatedDesc(_)
SortCreatedDesc(s) ==
    IF s = <<>> THEN <<>>
    ELSE InsertCreatedDesc(Head(s), SortCreatedDesc(Tail(s)))

\* cursor.skip(k)
Skip(s, k) == SubSeq(s, k + 1, Len(s))

\* cursor.limit(n): the driver reads a limit of 0 as no limit
Limit(s, n) == IF n = 0 THEN s ELSE SubSeq(s, 1, Min(n, Len(s)))

\* mutant: pages counted from 0
skip_offset_from_zero(page, limit) == Max(0, page * limit)

\* skip = max(0, (page - 1) * limit)
skip_offset(page, limit) == Max(0, (page - 1) * limit)

\* doc["id"] = str(doc.pop("_id"))
ToItem(doc) == [id |-> StrId(doc._id), data |-> doc.data, created_at |-> doc.created_at]

ToItems(docs) == [i \in 1..Len(docs) |-> ToItem(docs[i])]

list_portfolio(category, page, limit) ==
    IF ~dbUp THEN NotConfigured
    ELSE LET f      == filter_dict(category)
             skip   == skip_offset(page, limit)
             total  == count_documents(portfolio, f)
             cursor == Limit(Skip(SortCreatedDesc(Find(portfolio, f)), skip), limit)
         IN  [NoResp EXCEPT !.code = 200, !.items = ToItems(cursor),
                            !.total = total, !.page = page, !.limit = limit]

ListPortfolio(category, page, limit) ==
    /\ req' = [op |-> "list", category |-> category, page |-> page, limit |-> limit]
    /\ resp' = list_portfolio(category, page, limit)
    /\ log' = <<>>
    /\ UNCHANGED <<env, dbUp, portfolio, contacts, nextId, clock, posted, nreq>>

----------------------------------------------------------------------------
(* POST /api/portfolio *)

\* [resp, coll, log]: the handler's response, the collection it leaves and its calls
add_portfolio_item(item, ok) ==
    IF ~PortfolioItemValid(item)
    THEN [resp |-> ValidationError, coll |-> portfolio, log |-> <<>>]
    ELSE IF ~dbUp
    THEN [resp |-> NotConfigured, coll |-> portfolio, log |-> <<>>]
    ELSE LET r == create_document(portfolio, item, nextId, clock, ok)
         IN  IF r.raised
             THEN [resp |-> ServerError, coll |-> r.coll, log |-> <<"insert_raise">>]
             ELSE [resp |-> [NoResp EXCEPT !.code = 200, !.id = r.id],
                   coll |-> r.coll, log |-> <<"insert_ok">>]

AddPortfolioItem(item, ok) ==
    /\ nreq < MaxReqs
    /\ nreq' = nreq + 1
    /\ req' = [op |-> "add", item |-> item]
    /\ LET h == add_portfolio_item(item, ok)
       IN  /\ resp' = h.resp
           /\ portfolio' = h.coll
           /\ log' = h.log
           /\ nextId' = nextId + Len(h.coll) - Len(portfolio)
           /\ clock' = clock + Len(h.coll) - Len(portfolio)
           /\ posted' = IF h.resp.code = 200 THEN posted \cup {h.resp.id} ELSE posted
    /\ UNCHANGED <<env, dbUp, contacts>>

----------------------------------------------------------------------------
(* POST /api/portfolio/bulk *)

\* mutant: each new id is put in front of the list
RECURSIVE BulkLoopPrepending(_, _, _, _, _, _)
BulkLoopPrepending(items, i, failAt, coll, ids, calls) ==
    IF i > Len(items)
    THEN [resp |-> [NoResp EXCEPT !.code = 200, !.inserted = Len(ids), !.ids = ids],
          coll |-> coll, log |-> calls]
    ELSE LET r == create_document(coll, items[i], nextId + i - 1, clock + i - 1, i # failAt)
         IN  IF r.raised
             THEN [resp |-> ServerError, coll |-> r.coll, log |-> Append(calls, "insert_raise")]
             ELSE BulkLoopPrepending(items, i + 1, failAt, r.coll, <<r.id>> \o ids,
                                     Append(calls, "insert_ok"))

\* mutant: an insert that raises is skipped and the loop goes on
RECURSIVE BulkLoopSkipping(_, _, _, _, _, _)
BulkLoopSkipping(items, i, failAt, coll, ids, calls) ==
    IF i > Len(items)
    THEN [resp |-> [NoResp EXCEPT !.code = 200, !.inserted = Len(ids), !.ids = ids],
          coll |-> coll, log |-> calls]
    ELSE LET r == create_document(coll, items[i], nextId + i - 1, clock + i - 1, i # failAt)
         IN  IF r.raised
             THEN BulkLoopSkipping(items, i + 1, failAt, r.coll, ids,
                                   Append(calls, "insert_raise"))
             ELSE BulkLoopSkipping(items, i + 1, failAt, r.coll, Append(ids, r.id),
                                   Append(calls, "insert_ok"))

\* the loop `for it in items: ids.append(create_document("portfolioitem", it))`
\* from item i on; the failAt-th insert raises (0: none does)
RECURSIVE BulkLoop(_, _, _, _, _, _)
BulkLoop(items, i, failAt, coll, ids, calls) ==
    IF i > Len(items)
    THEN [resp |-> [NoResp EXCEPT !.code = 200, !.inserted = Len(ids), !.ids = ids],
          coll |-> coll, log |-> calls]
    ELSE LET r == create_document(coll, items[i], nextId + i - 1, clock + i - 1, i # failAt)
         IN  IF r.raised
             THEN [resp |-> ServerError, coll |-> r.coll, log |-> Append(calls, "insert_raise")]
             ELSE BulkLoop(items, i + 1, failAt, r.coll, Append(ids, r.id),
                           Append(calls, "insert_ok"))

add_portfolio_bulk(items, failAt) ==
    IF ~AllValid(items)
    THEN [resp |-> ValidationError, coll |-> portfolio, log |-> <<>>]
    ELSE IF ~dbUp
    THEN [resp |-> NotConfigured, coll |-> portfolio, log |-> <<>>]
    ELSE BulkLoop(items, 1, failAt, portfolio, <<>>, <<>>)

AddPortfolioBulk(items, failAt) ==
    /\ nreq < MaxReqs
    /\ nreq' = nreq + 1
    /\ req' = [op |-> "bulk", items |-> items]
    /\ LET h == add_portfolio_bulk(items, failAt)
       IN  /\ resp' = h.resp
           /\ portfolio' = h.coll
           /\ log' = h.log
           /\ nextId' = nextId + Len(h.coll) - Len(portfolio)
           /\ clock' = clock + Len(h.coll) - Len(portfolio)
    /\ UNCHANGED <<env, dbUp, contacts, posted>>

----------------------------------------------------------------------------
(* POST /api/contact *)

DigitVal ==
    [ c \in {"0", "1", "2", "3", "4", "5", "6", "7", "8", "9"} |->
        CASE c = "0" -> 0 [] c = "1" -> 1 [] c = "2" -> 2 [] c = "3" -> 3 [] c = "4" -> 4
          [] c = "5" -> 5 [] c = "6" -> 6 [] c = "7" -> 7 [] c = "8" -> 8 [] c = "9" -> 9 ]

RECURSIVE DigitsValue(_, _)
DigitsValue(chars, acc) ==
    IF chars = <<>> THEN acc
    ELSE DigitsValue(Tail(chars), 10 * acc + DigitVal[Head(chars)])

\* int(s): [ok, val]; a string that is empty or holds a non-digit raises ValueError
ParseInt(chars) ==
    IF chars # <<>> /\ \A i \in 1..Len(chars) : chars[i] \in DOMAIN DigitVal
    THEN [ok |-> TRUE, val |-> DigitsValue(chars, 0)]
    ELSE [ok |-> FALSE, val |-> 0]

\* os.getenv("SMTP_PORT", "587"): the default stands in only for an unset variable
smtp_port_string(e) == IF e.SMTP_PORT.set THEN e.SMTP_PORT.val ELSE <<"5", "8", "7">>

\* the calls made on the relay inside `with smtplib.SMTP(host, port, timeout=15)`;
\* the one named failAt raises and `except Exception` takes over ("none": the relay
\* accepts, and "sent" is the return of (True, "sent"))
relay_steps(e) ==
    <<"connect", "starttls">>
      \o (IF EnvTruthy(e.SMTP_USER) /\ EnvTruthy(e.SMTP_PASS) THEN <<"login">> ELSE <<>>)
      \o <<"send_message">>

RECURSIVE RunRelay(_, _, _)
RunRelay(steps, failAt, done) ==
    IF steps = <<>> THEN [ok |-> TRUE, info |-> "sent", calls |-> Append(done, "sent")]
    ELSE IF Head(steps) = failAt
    THEN [ok |-> FALSE, info |-> failAt, calls |-> done \o <<Head(steps), "except">>]
    ELSE RunRelay(Tail(steps), failAt, Append(done, Head(steps)))

\* [raised, ok, info, calls]
send_email_via_smtp(e, failAt) ==
    LET port     == ParseInt(smtp_port_string(e))
        to_email == EnvOr(e.CONTACT_TO_EMAIL, e.TO_EMAIL)
    IN  IF ~port.ok
        THEN [raised |-> TRUE, ok |-> FALSE, info |-> "ValueError", calls |-> <<>>]
        ELSE IF ~(EnvTruthy(e.SMTP_HOST) /\ EnvTruthy(to_email))
        THEN [raised |-> FALSE, ok |-> FALSE, info |-> "SMTP not configured",
              calls |-> <<"not_configured">>]
        ELSE LET r == RunRelay(relay_steps(e), failAt, <<>>)
             IN  [raised |-> FALSE, ok |-> r.ok, info |-> r.info, calls |-> r.calls]

\* mutant: the two statuses exchanged
contact_status_swapped(ok) == IF ok THEN "stored" ELSE "emailed"

\* status = "emailed" if ok else "stored"
contact_status(ok) == IF ok THEN "emailed" ELSE "stored"

\* mutant: the chained conditional grouped as (A if ok else B) if saved_id else C
contact_detail_regrouped(ok, info, saved_id) ==
    IF saved_id # NoId
    THEN (IF ok THEN <<"Message emailed successfully">>
          ELSE <<"Email not sent", ": ", info, ". Saved to database.">>)
    ELSE <<"Email not sent", " and could not save.">>

\* detail = A if ok else B if saved_id else C
contact_detail(ok, info, saved_id) ==
    IF ok THEN <<"Message emailed successfully">>
    ELSE IF saved_id # NoId THEN <<"Email not sent", ": ", info, ". Saved to database.">>
    ELSE <<"Email not sent", " and could not save.">>

\* mutant: a failed delivery is tried a second time
submit_contact_retrying(payload, persistOk, failAt) ==
    IF ~ContactMessageValid(payload)
    THEN [resp |-> ValidationError, coll |-> contacts, log |-> <<>>]
    ELSE LET saved == create_document(contacts, payload, nextId, clock, persistOk)
             saved_id == IF saved.raised THEN NoId ELSE saved.id
             persist  == IF saved.raised THEN <<"persist_raise">> ELSE <<"persist_ok">>
             mail     == send_email_via_smtp(env, failAt)
             again    == IF mail.raised \/ mail.ok THEN <<>>
                         ELSE <<"send_email_via_smtp">> \o mail.calls
             calls    == persist \o <<"send_email_via_smtp">> \o mail.calls \o again
         IN  IF mail.raised
             THEN [resp |-> ServerError, coll |-> saved.coll, log |-> Append(calls, "raise")]
             ELSE [resp |-> [NoResp EXCEPT !.code = 200,
                                           !.status = contact_status(mail.ok),
                                           !.id = saved_id,
                                           !.detail = contact_detail(mail.ok, mail.info, saved_id)],
                   coll |-> saved.coll, log |-> Append(calls, "return")]

\* [resp, coll, log]
submit_contact(payload, persistOk, failAt) ==
    IF ~ContactMessageValid(payload)
    THEN [resp |-> ValidationError, coll |-> contacts, log |-> <<>>]
    ELSE LET saved == create_document(contacts, payload, nextId, clock, persistOk)
             saved_id == IF saved.raised THEN NoId ELSE saved.id
             persist  == IF saved.raised THEN <<"persist_raise">> ELSE <<"persist_ok">>
             mail     == send_email_via_smtp(env, failAt)
             calls    == persist \o <<"send_email_via_smtp">> \o mail.calls
         IN  IF mail.raised
             THEN [resp |-> ServerError, coll |-> saved.coll, log |-> Append(calls, "raise")]
             ELSE [resp |-> [NoResp EXCEPT !.code = 200,
                                           !.status = contact_status(mail.ok),
                                           !.id = saved_id,
                                           !.detail = contact_detail(mail.ok, mail.info, saved_id)],
                   coll |-> saved.coll, log |-> Append(calls, "return")]

SubmitContact(payload, persistOk, failAt) ==
    /\ nreq < MaxReqs
    /\ nreq' = nreq + 1
    /\ req' = [op |-> "contact", payload |-> payload]
    /\ LET h == submit_contact(payload, persistOk, failAt)
       IN  /\ resp' = h.resp
           /\ contacts' = h.coll
           /\ log' = h.log
           /\ nextId' = nextId + Len(h.coll) - Len(contacts)
           /\ clock' = clock + Len(h.coll) - Len(contacts)
    /\ UNCHANGED <<env, dbUp, portfolio, posted>>

----------------------------------------------------------------------------
(* Request bodies and environments the behaviours draw from *)

Url(scheme, host, path) == [scheme |-> scheme, host |-> host, path |-> path]

ItemA ==
    [ title |-> NoneV, category |-> "Interiors", src |-> Url("https", "cdn.example", "/a.jpg"),
      caption |-> NoneV, width |-> Some(1), height |-> NoneV ]

ItemB ==
    [ title |-> Some("Roof"), category |-> "Drone / Aerial",
      src |-> Url("http", "cdn.example", "/b.jpg"),
      caption |-> NoneV, width |-> NoneV, height |-> Some(600) ]

ItemBogus == [ItemA EXCEPT !.category = "Bogus"]
ItemNotAUrl == [ItemB EXCEPT !.src = Url("", "", "not-a-url")]
ItemZeroWidth == [ItemA EXCEPT !.width = Some(0)]

ValidItems == {ItemA, ItemB}
SampleItems == ValidItems \cup {ItemBogus, ItemNotAUrl, ItemZeroWidth}

\* bulk bodies: the empty one, valid ones of one to three items, and ones with an item
\* the schema does not admit in the first, the middle and the last place
BulkBodies ==
    { <<>>, <<ItemA>>, <<ItemB, ItemA>>, <<ItemA, ItemB, ItemA>>,
      <<ItemBogus>>, <<ItemB, ItemBogus>>, <<ItemNotAUrl, ItemA>>,
      <<ItemA, ItemZeroWidth, ItemB>> }

\* a bulk body as long as the default page
FullPage == [i \in 1..DefaultLimit |-> ItemA]

\* which insert of a bulk body raises (0: none)
FailPoints(items) == 0..Len(items)

Email(local, domain) == [local |-> local, domain |-> domain]

PayloadMin ==
    [ name |-> NameMinLen, email |-> Email("ann", "example.org"), phone |-> NoneV,
      message |-> MessageMinLen ]

PayloadMax ==
    [ name |-> NameMaxLen, email |-> Email("bob", "example.org"), phone |-> Some(PhoneMaxLen),
      message |-> MessageMaxLen ]

SamplePayloads ==
    { PayloadMin, PayloadMax,
      [PayloadMin EXCEPT !.message = MessageMinLen - 1],
      [PayloadMax EXCEPT !.message = MessageMaxLen + 1],
      [PayloadMin EXCEPT !.name = NameMinLen - 1],
      [PayloadMax EXCEPT !.name = NameMaxLen + 1],
      [PayloadMax EXCEPT !.phone = Some(PhoneMaxLen + 1)],
      [PayloadMin EXCEPT !.email = Email("ann", "")] }

\* where the relay fails ("none": it accepts the message)
RelayFailures == {"none", "connect", "starttls", "login", "send_message"}

HostValues == {Unset, EnvVal(<<>>), EnvVal(<<"m", "x">>)}
PortValues == {Unset, EnvVal(<<"2", "5">>), EnvVal(<<>>), EnvVal(<<"s", "m", "t", "p">>)}
CredValues == {Unset, EnvVal(<<"s">>)}
ContactToValues == {Unset, EnvVal(<<>>), EnvVal(<<"a">>)}
ToValues == {Unset, EnvVal(<<"b">>)}

Envs ==
    [ SMTP_HOST : HostValues, SMTP_PORT : PortValues, SMTP_USER : CredValues,
      SMTP_PASS : CredValues, CONTACT_TO_EMAIL : ContactToValues, TO_EMAIL : ToValues ]

EnvUnconfigured ==
    [ SMTP_HOST |-> Unset, SMTP_PORT |-> Unset, SMTP_USER |-> Unset,
      SMTP_PASS |-> Unset, CONTACT_TO_EMAIL |-> Unset, TO_EMAIL |-> Unset ]

EnvConfigured ==
    [ SMTP_HOST |-> EnvVal(<<"m", "x">>), SMTP_PORT |-> EnvVal(<<"2", "5">>),
      SMTP_USER |-> EnvVal(<<"s">>), SMTP_PASS |-> EnvVal(<<"s">>),
      CONTACT_TO_EMAIL |-> EnvVal(<<"a">>), TO_EMAIL |-> Unset ]

\* a collection of n documents inserted earlier, cycling through the first m categories
Preloaded(n, m) ==
    [ i \in 1..n |-> NewDoc([ItemA EXCEPT !.category = Categories[((i - 1) % m) + 1]], i, i) ]

QueryCategories ==
    {NoneV, Some(""), Some("Bogus")} \cup { Some(Categories[i]) : i \in 1..(MaxCycle + 1) }
QueryPages == 0..MaxPage
QueryLimits == (0..MaxLimit) \cup {DefaultLimit}

----------------------------------------------------------------------------
(* Specifications *)

InitRequest ==
    /\ req = [op |-> "none"]
    /\ resp = NoResp
    /\ log = <<>>
    /\ posted = {}
    /\ nreq = 0

\* the service after start-up, the store empty
Init ==
    /\ env \in {EnvUnconfigured, EnvConfigured}
    /\ dbUp \in BOOLEAN
    /\ portfolio = <<>>
    /\ contacts = <<>>
    /\ nextId = 1
    /\ clock = 1
    /\ InitRequest

\* the service after start-up under every environment
InitContact ==
    /\ env \in Envs
    /\ dbUp \in BOOLEAN
    /\ portfolio = <<>>
    /\ contacts = <<>>
    /\ nextId = 1
    /\ clock = 1
    /\ InitRequest

\* the service over a portfolio collection filled earlier
InitList ==
    /\ env = EnvUnconfigured
    /\ dbUp \in BOOLEAN
    /\ \E n \in 0..MaxDocs, m \in 1..MaxCycle : portfolio = Preloaded(n, m)
    /\ contacts = <<>>
    /\ nextId = Len(portfolio) + 1
    /\ clock = Len(portfolio) + 1
    /\ InitRequest

PostPortfolio == \E item \in SampleItems, ok \in BOOLEAN : AddPortfolioItem(item, ok)

PostPortfolioBulk ==
    \E items \in BulkBodies : \E failAt \in FailPoints(items) : AddPortfolioBulk(items, failAt)

PostPortfolioFullPage == \E failAt \in FailPoints(FullPage) : AddPortfolioBulk(FullPage, failAt)

GetPortfolioDefault == ListPortfolio(NoneV, DefaultPage, DefaultLimit)

GetPortfolio ==
    \E category \in QueryCategories, page \in QueryPages, limit \in QueryLimits :
        ListPortfolio(category, page, limit)

PostContact ==
    \E payload \in SamplePayloads, persistOk \in BOOLEAN, failAt \in RelayFailures :
        SubmitContact(payload, persistOk, failAt)

Next == PostPortfolio \/ PostPortfolioBulk \/ GetPortfolioDefault \/ PostContact

NextContact == PostContact

NextPaging == PostPortfolio \/ PostPortfolioFullPage \/ GetPortfolioDefault

NextList == GetPortfolio

Spec == Init /\ [][Next]_vars

SpecContact == InitContact /\ [][NextContact]_vars

SpecPaging == Init /\ [][NextPaging]_vars

SpecList == InitList /\ [][NextList]_vars

----------------------------------------------------------------------------
(* Reading a handled request *)

Count(s, x) == Cardinality({ i \in 1..Len(s) : s[i] = x })
Has(s, x) == \E i \in 1..Len(s) : s[i] = x

\* a contact submission that passed validation
ContactHandled == req.op = "contact" /\ resp.code # 422

\* ... and was answered with {status, id, detail}
ContactAnswered == req.op = "contact" /\ resp.code = 200

\* the delivery attempt ended in (True, "sent")
Delivered == Has(log, "sent")

\* the message of a failed delivery: the fixed one, or that of the call that raised
DeliveryInfo ==
    IF Has(log, "not_configured") THEN "SMTP not configured"
    ELSE IF Has(log, "except") THEN log[(CHOOSE i \in 1..Len(log) : log[i] = "except") - 1]
    ELSE "sent"

HostPresent == env.SMTP_HOST.set /\ env.SMTP_HOST.val # <<>>
RecipientPresent ==
    \/ env.CONTACT_TO_EMAIL.set /\ env.CONTACT_TO_EMAIL.val # <<>>
    \/ env.TO_EMAIL.set /\ env.TO_EMAIL.val # <<>>

----------------------------------------------------------------------------
(* Claims about POST /api/contact, under SpecContact *)

C3_AlwaysAnswered ==
    ContactHandled =>
        /\ resp.code = 200
        /\ ~Has(log, "raise")
        /\ Has(log, "persist_raise") => resp.id = NoId
        /\ Has(log, "persist_ok") =>
              /\ contacts # <<>>
              /\ resp.id = StrId(contacts[Len(contacts)]._id)

\* C4 (as claimed): without SMTP host or recipient the delivery step contacts no relay
\* and returns "SMTP not configured", so the answer is status "stored" with a detail
\* containing "Email not sent"; with both, and the relay accepting, it is "emailed".
C4_UnconfiguredIsSkipped ==
    ContactHandled =>
        /\ ~(HostPresent /\ RecipientPresent) =>
              /\ ~Has(log, "connect")
              /\ Has(log, "not_configured")
              /\ resp.code = 200
              /\ resp.status = "stored"
              /\ Has(resp.detail, "Email not sent")
        /\ (HostPresent /\ RecipientPresent /\ Delivered) =>
              /\ resp.code = 200
              /\ resp.status = "emailed"

\* C9: a validated contact submission makes exactly one persistence attempt, then
\* exactly one call of the delivery step with at most one connection attempt, and
\* answers only after both.
C9_OnceEachInOrder ==
    ContactHandled =>
        /\ Len(log) >= 3
        /\ log[1] \in {"persist_ok", "persist_raise"}
        /\ Count(log, "persist_ok") + Count(log, "persist_raise") = 1
        /\ log[2] = "send_email_via_smtp"
        /\ Count(log, "send_email_via_smtp") = 1
        /\ Count(log, "connect") <= 1
        /\ Count(log, "send_message") <= 1
        /\ Count(log, "return") + Count(log, "raise") = 1
        /\ log[Len(log)] \in {"return", "raise"}
        /\ (resp.code = 200) <=> (log[Len(log)] = "return")

\* C9 witness: persistence failed, the relay refused the connection, and the answer
\* followed both attempts without a second try.
C9_BothFailedThenAnswered ==
    /\ ContactAnswered
    /\ log = <<"persist_raise", "send_email_via_smtp", "connect", "except", "return">>

----------------------------------------------------------------------------
(* Claims about the portfolio endpoints: C5 under SpecPaging, C6 under SpecList, the  *)
(* others under Spec                                                                  *)

ListAnswered == req.op = "list" /\ resp.code = 200

DefaultListAnswered ==
    /\ ListAnswered
    /\ req.category = NoneV
    /\ req.page = DefaultPage
    /\ req.limit = DefaultLimit

\* how often the item with this id occurs in the listed items
Occurrences(id) == Cardinality({ k \in 1..Len(resp.items) : resp.items[k].id = id })

\* stored portfolio documents created after the one with this id
NewerThan(id) ==
    { j \in 1..Len(portfolio) :
        \E i \in 1..Len(portfolio) :
            /\ StrId(portfolio[i]._id) = id
            /\ portfolio[j].created_at > portfolio[i].created_at }

\* C5 (as claimed): an item POST /api/portfolio returned an id for is included exactly
\* once by a subsequent unfiltered GET /api/portfolio with the default page and limit,
\* whatever was stored before and whatever was inserted in between.
C5_PostedItemListedOnce ==
    DefaultListAnswered => \A id \in posted : Occurrences(id) = 1

\* C5 (amended): a successful POST /api/portfolio returns the id of the document it
\* stored; a subsequent default GET includes that item at most once, exactly once while
\* the collection holds at most 18 documents, and in general exactly when fewer than 18
\* documents are newer than it.
C5_PostedItemListedWhileOnFirstPage ==
    /\ (req.op = "add" /\ resp.code = 200) =>
          /\ resp.id # NoId
          /\ resp.id \in posted
          /\ portfolio # <<>>
          /\ StrId(portfolio[Len(portfolio)]._id) = resp.id
          /\ portfolio[Len(portfolio)].data = req.item
    /\ DefaultListAnswered =>
          \A id \in posted :
              /\ Occurrences(id) <= 1
              /\ Len(portfolio) <= DefaultLimit => Occurrences(id) = 1
              /\ (Occurrences(id) = 1) <=> (Cardinality(NewerThan(id)) < DefaultLimit)

\* C5 witness: a posted item is listed once although a later insert came before the GET.
C5_PostedItemListedAfterLaterInsert ==
    /\ DefaultListAnswered
    /\ \E id \in posted : Occurrences(id) = 1 /\ NewerThan(id) # {}

\* the query restricts the category ("absent or empty meaning no restriction")
Restricts == req.category # NoneV /\ req.category # Some("")

\* positions of the stored documents the query's filter matches
MatchingDocs ==
    { i \in 1..Len(portfolio) : ~Restricts \/ portfolio[i].data.category = req.category[1] }

\* 0-based position of document i among the matching ones, newest first
RankOf(i) ==
    Cardinality({ j \in MatchingDocs : portfolio[j].created_at > portfolio[i].created_at })

ClaimedSkip ==
    IF (req.page - 1) * req.limit > 0 THEN (req.page - 1) * req.limit ELSE 0

\* the listed items are exactly the matching documents ranked lo .. lo+n-1, in that order
WindowIs(lo, n) ==
    /\ Len(resp.items) =
          Cardinality({ i \in MatchingDocs : RankOf(i) >= lo /\ RankOf(i) < lo + n })
    /\ \A k \in 1..Len(resp.items) :
          \E i \in MatchingDocs :
              /\ RankOf(i) = lo + k - 1
              /\ resp.items[k].id = StrId(portfolio[i]._id)
              /\ resp.items[k].data = portfolio[i].data
              /\ resp.items[k].created_at = portfolio[i].created_at

\* C6 (as claimed): GET /api/portfolio with category c, page p and limit n returns the
\* matching documents at positions skip .. skip+n-1 (skip = max(0, (p-1)*n)) of the
\* creation-time-descending order, and total = the number of matching documents.
C6_PageIsWindow ==
    ListAnswered =>
        /\ resp.total = Cardinality(MatchingDocs)
        /\ WindowIs(ClaimedSkip, req.limit)

\* C6 (amended): the same for every limit n >= 1; with n = 0 the store applies no limit
\* and every matching document is returned, newest first. Every item returned under a
\* category filter has that category.
C6_PageIsWindowForPositiveLimit ==
    ListAnswered =>
        /\ resp.total = Cardinality(MatchingDocs)
        /\ resp.page = req.page /\ resp.limit = req.limit
        /\ req.limit >= 1 => WindowIs(ClaimedSkip, req.limit)
        /\ req.limit = 0 => WindowIs(0, Cardinality(MatchingDocs))
        /\ Restricts =>
              \A k \in 1..Len(resp.items) : resp.items[k].data.category = req.category[1]

\* C6 witness: 20 matching documents, limit 18, page 2: the two oldest and total = 20.
C6_SecondPageOfTwenty ==
    /\ ListAnswered
    /\ req.category = Some("Interiors") /\ req.page = 2 /\ req.limit = DefaultLimit
    /\ resp.total = 20
    /\ Len(resp.items) = 2
    /\ RankOf(CHOOSE i \in MatchingDocs : StrId(portfolio[i]._id) = resp.items[1].id) = 18
    /\ RankOf(CHOOSE i \in MatchingDocs : StrId(portfolio[i]._id) = resp.items[2].id) = 19


\* a portfolio body the schema does not admit: a category outside the six, or a src
\* that is no absolute http(s) URL
NotAdmitted(item) ==
    \/ item.category \notin { "Interiors", "Exteriors", "Drone / Aerial",
                              "Architectural Details", "Commercial Spaces",
                              "Short-Let & Airbnb" }
    \/ item.src.scheme \notin {"http", "https"}
    \/ item.src.host = ""

\* C7: a body that fails schema validation is rejected before any store write and, for
\* contact, before any email attempt: a portfolio item with a category outside the six
\* or a src that is no absolute URL (single and bulk), and a contact message shorter
\* than 5 characters; a message of exactly 5 characters is accepted.
C7_RejectedBeforeAnyWrite ==
    [][ nreq' = nreq + 1 =>
          /\ (req'.op = "add" /\ NotAdmitted(req'.item)) => resp'.code = 422
          /\ (req'.op = "bulk" /\ \E i \in 1..Len(req'.items) : NotAdmitted(req'.items[i]))
                => resp'.code = 422
          /\ (req'.op = "contact" /\ req'.payload.message < MessageMinLen)
                => resp'.code = 422
          /\ (req'.op = "contact" /\ req'.payload = PayloadMin) => resp'.code # 422
          /\ resp'.code = 422 =>
                /\ portfolio' = portfolio
                /\ contacts' = contacts
                /\ log' = <<>>
      ]_vars

\* C7 witness: a bulk body whose second item has a bogus category is rejected over a
\* non-empty collection, its valid first item not stored.
C7_BulkWithBogusItemRejected ==
    /\ req.op = "bulk"
    /\ Len(req.items) = 2
    /\ req.items[1] = ItemB
    /\ req.items[2] = ItemBogus
    /\ resp.code = 422
    /\ portfolio # <<>>
    /\ \A i \in 1..Len(portfolio) : portfolio[i].data # ItemB

\* C8: a bulk insert of n valid items whose inserts all succeed stores them one at a
\* time in submission order and returns inserted = n with n pairwise distinct ids, the
\* i-th being the id of the i-th submitted item.
C8_BulkIdsInSubmissionOrder ==
    (req.op = "bulk" /\ resp.code = 200) =>
        LET n    == Len(req.items)
            base == Len(portfolio) - n
        IN  /\ resp.inserted = n
            /\ Len(resp.ids) = n
            /\ base >= 0
            /\ log = [i \in 1..n |-> "insert_ok"]
            /\ \A i, j \in 1..n : i # j => resp.ids[i] # resp.ids[j]
            /\ \A i \in 1..n :
                  /\ StrId(portfolio[base + i]._id) = resp.ids[i]
                  /\ portfolio[base + i].data = req.items[i]
            /\ \A i \in 1..(n - 1) :
                  portfolio[base + i].created_at < portfolio[base + i + 1].created_at

\* C8 witness: three items inserted in one bulk request over earlier documents.
C8_ThreeItemsInserted ==
    /\ req.op = "bulk" /\ resp.code = 200
    /\ req.items = <<ItemA, ItemB, ItemA>>
    /\ resp.inserted = 3
    /\ Len(portfolio) > 3

\* C10: when the k-th insert of a bulk request fails, the request ends in an error
\* carrying no ids, the first k-1 items stay stored and the later ones are not inserted.
C10_BulkFailureKeepsPrefix ==
    [][ (nreq' = nreq + 1 /\ req'.op = "bulk" /\ Has(log', "insert_raise")) =>
          LET k == Len(log')
          IN  /\ log' = [i \in 1..k |-> IF i < k THEN "insert_ok" ELSE "insert_raise"]
              /\ resp'.code = 500
              /\ resp'.ids = <<>>
              /\ resp'.inserted = 0
              /\ Len(portfolio') = Len(portfolio) + k - 1
              /\ SubSeq(portfolio', 1, Len(portfolio)) = portfolio
              /\ \A i \in 1..(k - 1) : portfolio'[Len(portfolio) + i].data = req'.items[i]
      ]_vars

\* C10 witness: over earlier documents, the second insert of a three-item bulk body
\* failed after the first succeeded.
C10_SecondInsertFailed ==
    /\ req.op = "bulk"
    /\ resp.code = 500
    /\ log = <<"insert_ok", "insert_raise">>
    /\ Len(req.items) = 3
    /\ Len(portfolio) > 1
    /\ portfolio[Len(portfolio)].data = req.items[1]

====
